---------------------------- MODULE Spec2Model ----------------------------
(*************************************************************************)
(* pysparkling: the Context of src/pysparkling/context.py.               *)
(*                                                                       *)
(*   SpecPar  Context.parallelize, one loop iteration per step.          *)
(*   Spec     Context.runJob on its local and its distributed path, the  *)
(*            worker task runner runJob_map and the CacheManager         *)
(*            instances of the driver and of the worker.                 *)
(*************************************************************************)
EXTENDS Integers, Sequences, FiniteSets, TLC

(* ------------------------------ bounds ------------------------------ *)

\* longest collection handed to parallelize
MaxLen == 6
\* largest numPartitions handed to parallelize
MaxNum == 7
\* largest partition index of the dataset a job runs on
MaxIndex == 1
\* longest partitions argument handed to runJob
MaxParts == 2
\* largest total a phase of the statistics is followed to
MaxTicks == 2
\* most newRddId calls followed
MaxIds == 6

Min(a, b) == IF a < b THEN a ELSE b

RECURSIVE SeqsUpTo(_, _)
SeqsUpTo(S, n) ==
    IF n = 0 THEN {<<>>}
    ELSE LET shorter == SeqsUpTo(S, n - 1)
         IN  shorter \cup {Append(s, e) : s \in {t \in shorter : Len(t) = n - 1}, e \in S}

\* the collection [1, 2, ..., l]: parallelize never looks at an element,
\* so elements that name their own position lose no case
Iota(l) == [k \in 1..l |-> k]

VARIABLES
    \* ---- Context.parallelize ----
    x,              \* the collection handed to parallelize
    numPartitions,  \* its numPartitions argument (0: None)
    len_x,          \* line 142
    xpos,           \* how many elements the shared iterator x has given out
    i_par,          \* the loop variable of partitioned()
    rdd_p,          \* the Partition objects of the new RDD, in creation order
    pc_par          \* "call", "loop", "done"

parVars == <<x, numPartitions, len_x, xpos, i_par, rdd_p, pc_par>>

VARIABLES
    \* ---- Context.__init__ and the function the jobs run ----
    pool,           \* "DummyPool", or a pool whose map runs runJob_map in
                    \* the driver's process ("InProcessPool") or in a worker
                    \* process of its own ("ProcessPool")
    codec,          \* the data (de)serializer pair: "unit_fn" or "pickle"
    det,            \* whether rdd.compute is deterministic
    clock,          \* time.clock(): "coarse" (no two readings in a job
                    \* differ) or "fine"
    \* ---- CacheManager instances ----
    heap,           \* address -> cache_obj of the instance at that address
    singleton__,    \* process -> address of CacheManager.singleton__ (0: None)
    \* ---- one runJob call ----
    status,         \* "idle", "running", "returned", "raised"
    path,           \* "none", "local", "distributed"
    allow_local,    \* the allowLocal argument
    rdd,            \* the identity of the dataset the job runs on
    given,            \* the partitions argument as the caller gave it
    partitions,     \* the partitions the job runs on (their indices)
    handler,        \* whether a resultHandler was given
    started,        \* the body of _runJob_distributed has begun
    nprep,          \* prepare() calls made by the pool so far
    bundles,        \* task bundles the pool holds, not yet run
    outq,           \* returns of runJob_map the pool holds, not yet drained
    results,        \* what map_result has yielded so far
    error,          \* what the job raised: "none", "task", "codec"
    \* ---- history, read by the properties only ----
    cm0,            \* the driver's cache content when runJob was called
    joined,         \* the cache deltas the dispatch loop has joined
    wseen,          \* identities the worker process received or cached
    tasks,          \* the invocations of the computation in this job, in
                    \* order: position in partitions, outcome, cache delta
    \* ---- Context._stats ----
    stats           \* phase -> cumulative time

VARIABLES
    \* ---- Context.__last_rdd_id ----
    last_rdd_id,    \* the class attribute
    issued          \* history: what newRddId returned, and to which Context

idVars == <<last_rdd_id, issued>>

cfgVars == <<pool, codec, det, clock>>
jobVars == <<status, path, allow_local, rdd, given, partitions, handler, started, nprep, bundles,
             outq, results, error, cm0, joined>>
engVars == <<cfgVars, heap, singleton__, jobVars, wseen, tasks, stats>>

(* --------------------------- CacheManager --------------------------- *)

\* the identity of the persisted dataset the jobs run on
RddIds == {7}
Indices == 0..MaxIndex
\* a cache identity is the pair (dataset identity, partition index)
Idents == RddIds \X Indices
Values == {"a", "b"}
NoVal == "none"
\* the value a deterministic computation caches
DetVal == "a"

\* cache_obj of a CacheManager: identity -> value, NoVal where it holds none
Caches == [Idents -> Values \cup {NoVal}]
EmptyCache == [i \in Idents |-> NoVal]

stored_idents(c) == {i \in Idents : c[i] # NoVal}

\* kept: the identities the filter_id argument holds of
clone_contains(c, kept) ==
    [i \in Idents |-> IF i \in kept THEN c[i] ELSE NoVal]

\* entries of self are kept, entries of other fill what self lacks
join(self, other) ==
    [i \in Idents |-> IF self[i] # NoVal THEN self[i] ELSE other[i]]

get_not_in(c, idents) ==
    [i \in Idents |-> IF i \in idents THEN NoVal ELSE c[i]]

\* rdd.compute(partition, task_context) under func, on the process's
\* singleton with cache_obj c: a hit reads the entry, a miss computes v
\* and caches it. The task's result names the partition and the value.
compute_cache(c, id, index, v) ==
    IF c[<<id, index>>] # NoVal THEN c ELSE [c EXCEPT ![<<id, index>>] = v]

compute_result(c, id, index, v) ==
    <<index, IF c[<<id, index>>] # NoVal THEN c[<<id, index>>] ELSE v>>

\* the values a computation may produce
Computed == IF det THEN {DetVal} ELSE Values

(* ------------------------ processes and heap ------------------------ *)

Procs == {"driver", "worker"}
NoAddr == 0
\* both singletons and one fragment per bundle the pool can hold
Addrs == 1..(MaxParts + MaxIndex + 3)

Singletons == {singleton__[q] : q \in Procs} \ {NoAddr}

InUse == Singletons \cup {bundles[k].cm.val : k \in 1..Len(bundles)}

\* a new CacheManager() is put at an address nothing refers to
Fresh == CHOOSE a \in Addrs \ InUse : \A b \in Addrs \ InUse : a <= b

\* the process runJob_map runs in
WorkerProc == IF pool = "ProcessPool" THEN "worker" ELSE "driver"

\* the partitions argument of runJob: None, or a sequence of partitions
None == [none |-> TRUE, seq |-> <<>>]
Given(seq) == [none |-> FALSE, seq |-> seq]
PartitionArgs == {None} \cup {Given(seq) : seq \in SeqsUpTo(Indices, MaxParts)}

\* the dataset's partitions, rdd.partitions()
AllPartitions == [k \in 1..(MaxIndex + 1) |-> k - 1]

\* the keys of Context._stats: lines 273-305 on the driver, lines 56-59
\* reported by runJob_map
DriverPhases == {"driver_cache_clone", "driver_cache_serialize", "driver_serialize_data",
                 "driver_deserialize_data", "driver_cache_join"}
MapPhases == {"map_cache_init", "map_deserialize_func", "map_deserialize_data", "map_exec"}
Phases == DriverPhases \cup MapPhases

\* the difference of two readings of time.clock()
Ticks == IF clock = "fine" THEN {0, 1} ELSE {0}

IdsIdle ==
    /\ last_rdd_id = 0
    /\ issued = <<>>

ParIdle ==
    /\ x = <<>>
    /\ numPartitions = 0
    /\ len_x = 0
    /\ xpos = 0
    /\ i_par = 0
    /\ rdd_p = <<>>
    /\ pc_par = "done"

\* no job has run: no CacheManager singleton exists yet in any process,
\* self._stats is an empty defaultdict(float) (line 112)
NoJob ==
    /\ heap = [a \in Addrs |-> EmptyCache]
    /\ singleton__ = [q \in Procs |-> NoAddr]
    /\ status = "idle"
    /\ path = "none"
    /\ allow_local = FALSE
    /\ rdd = 7
    /\ given = None
    /\ partitions = <<>>
    /\ handler = FALSE
    /\ started = FALSE
    /\ nprep = 0
    /\ bundles = <<>>
    /\ outq = <<>>
    /\ results = <<>>
    /\ error = "none"
    /\ cm0 = EmptyCache
    /\ joined = <<>>
    /\ wseen = {}
    /\ tasks = <<>>
    /\ stats = [ph \in Phases |-> 0]

EngIdle ==
    /\ pool = "DummyPool"
    /\ codec = "unit_fn"
    /\ det = TRUE
    /\ clock = "coarse"
    /\ NoJob

\* after Context(pool, ..., data_serializer, data_deserializer)
Init ==
    /\ ParIdle
    /\ IdsIdle
    /\ clock = "coarse"
    /\ pool \in {"DummyPool", "InProcessPool", "ProcessPool"}
    /\ codec \in {"unit_fn", "pickle"}
    /\ det \in BOOLEAN
    /\ NoJob

\* after Context(pool) with the default serializers, under a clock that
\* tells the phases of a job apart
InitStats ==
    /\ ParIdle
    /\ IdsIdle
    /\ clock = "fine"
    /\ pool \in {"DummyPool", "ProcessPool"}
    /\ codec = "unit_fn"
    /\ det = TRUE
    /\ NoJob

(* ------------------------ Context.parallelize ----------------------- *)

\* Partition(x, idx): the data is materialised when the Partition is made
Partition(data, idx) == [index |-> idx, data |-> data]

\* itertools.islice(it, n) drained: the next n elements of the iterator
\* that stands at position pos of s, fewer when it runs out
islice_short(s, pos, n) == SubSeq(s, pos + 1, Min(pos + n - 1, Len(s)))
islice(s, pos, n) == SubSeq(s, pos + 1, Min(pos + n, Len(s)))

\* int(i * len_x / numPartitions) under true division, operands >= 0
start_of(i, l, n) == (i * l) \div n

end_every(i, l, n) == (((i + 1) * l) \div n) + 1
\* lines 147-149
end_of(i, l, n) ==
    LET end == ((i + 1) * l) \div n
    IN  IF i + 1 = n THEN end + 1 ELSE end

InitPar ==
    /\ EngIdle
    /\ IdsIdle
    /\ x \in {Iota(l) : l \in 0..MaxLen}
    /\ numPartitions \in 0..MaxNum
    /\ len_x = 0
    /\ xpos = 0
    /\ i_par = 0
    /\ rdd_p = <<>>
    /\ pc_par = "call"

\* lines 138-139: no partition count, one partition with everything
parallelize_single ==
    /\ pc_par = "call"
    /\ numPartitions = 0
    /\ rdd_p' = <<Partition(x, 0)>>
    /\ pc_par' = "done"
    /\ UNCHANGED <<x, numPartitions, len_x, xpos, i_par, engVars, idVars>>

\* lines 141-142
parallelize_count ==
    /\ pc_par = "call"
    /\ numPartitions # 0
    /\ len_x' = Len(x)
    /\ pc_par' = "loop"
    /\ UNCHANGED <<x, numPartitions, xpos, i_par, rdd_p, engVars, idVars>>

\* one iteration of partitioned() (lines 145-150), enumerated and wrapped
\* by _parallelize_partitions (line 166)
partitioned ==
    /\ pc_par = "loop"
    /\ i_par < numPartitions
    /\ LET start == start_of(i_par, len_x, numPartitions)
           end   == end_of(i_par, len_x, numPartitions)
           p_data == islice(x, xpos, end - start)
       IN  /\ rdd_p' = Append(rdd_p, Partition(p_data, i_par))
           /\ xpos' = xpos + Len(p_data)
    /\ i_par' = i_par + 1
    /\ UNCHANGED <<x, numPartitions, len_x, pc_par, engVars, idVars>>

\* the generator is exhausted: RDD(...) is returned
parallelize_return ==
    /\ pc_par = "loop"
    /\ i_par = numPartitions
    /\ pc_par' = "done"
    /\ UNCHANGED <<x, numPartitions, len_x, xpos, i_par, rdd_p, engVars, idVars>>

NextPar ==
    \/ parallelize_single
    \/ parallelize_count
    \/ partitioned
    \/ parallelize_return

(* ----------------------- data (de)serializers ----------------------- *)

\* What crosses a boundary is [enc, err, val]: val encoded enc times; err
\* marks the TypeError of pickle.loads on what is no pickle
Obj(v) == [enc |-> 0, err |-> FALSE, val |-> v]

\* lines 23-25
unit_fn(arg) == arg

pickle_dumps(w) == [w EXCEPT !.enc = @ + 1]

pickle_loads(w) == IF w.enc > 0 THEN [w EXCEPT !.enc = @ - 1] ELSE [w EXCEPT !.err = TRUE]

\* self._data_serializer, self._data_deserializer (lines 100-109)
data_serializer(w) == IF codec = "unit_fn" THEN unit_fn(w) ELSE pickle_dumps(w)

data_deserializer(w) == IF codec = "unit_fn" THEN unit_fn(w) ELSE pickle_loads(w)

(* --------------------------- Context.runJob -------------------------- *)

\* CacheManager.singleton() in process q: the instance, made on first use
singleton(q) == IF singleton__[q] # NoAddr THEN singleton__[q] ELSE Fresh

DriverCache ==
    IF singleton__["driver"] = NoAddr THEN EmptyCache ELSE heap[singleton__["driver"]]

\* what a task does: return, raise before compute cached anything, raise
\* after it did
Outcomes == {"ok", "raise_before", "raise_after"}

add_stats_assign(st, upd) ==
    [ph \in Phases |-> IF ph \in DOMAIN upd THEN upd[ph] ELSE st[ph]]
\* self._stats[k] += v for every k of upd
add_stats(st, upd) ==
    [ph \in Phases |-> st[ph] + (IF ph \in DOMAIN upd THEN upd[ph] ELSE 0)]

\* the totals are followed up to MaxTicks
Fits(st) == \A ph \in Phases : st[ph] <= MaxTicks

use_local_flag(allowLocal) == allowLocal
\* line 248: allowLocal or isinstance(self._pool, DummyPool)
use_local(allowLocal) == allowLocal \/ pool = "DummyPool"

\* lines 244-256, up to the first pull on map_result
runJob(dataset, parts, allowLocal, resultHandler) ==
    /\ status # "running"
    /\ status' = "running"
    /\ rdd' = dataset
    /\ given' = parts
    /\ partitions' = IF parts.none \/ parts.seq = <<>> THEN AllPartitions ELSE parts.seq
    /\ allow_local' = allowLocal
    /\ path' = IF use_local(allowLocal) THEN "local" ELSE "distributed"
    /\ handler' = resultHandler
    /\ started' = FALSE
    /\ nprep' = 0
    /\ bundles' = <<>>
    /\ outq' = <<>>
    /\ results' = <<>>
    /\ error' = "none"
    /\ joined' = <<>>
    /\ cm0' = DriverCache
    /\ tasks' = <<>>
    \* the fragments of an abandoned job are garbage
    /\ heap' = [a \in Addrs |-> IF a \in Singletons THEN heap[a] ELSE EmptyCache]
    /\ UNCHANGED <<cfgVars, singleton__, wseen, stats, parVars, idVars>>

\* "for partition in partitions" (line 259), "for p in partitions" (line
\* 296): the partition that follows the n already taken
next_reversed(parts, n) == parts[Len(parts) - n]
next_partition(parts, n) == parts[n + 1]

propagates_never(outcome) == FALSE
\* lines 262-264, lines 48-49: nothing catches what func or rdd.compute raise
propagates(outcome) == outcome # "ok"

\* one iteration of _runJob_local (lines 259-264), pulled by the consumer
runJob_local(v, outcome) ==
    /\ status = "running"
    /\ path = "local"
    /\ Len(results) < Len(partitions)
    /\ LET index == next_partition(partitions, Len(results))
           a     == singleton("driver")
           c     == heap[a]
       IN  /\ singleton__' = [singleton__ EXCEPT !["driver"] = a]
           /\ heap' = [heap EXCEPT ![a] =
                          IF outcome = "raise_before" THEN c
                          ELSE compute_cache(c, rdd, index, v)]
           /\ tasks' = Append(tasks, [pos |-> Len(results) + 1, outcome |-> outcome,
                                      delta |-> EmptyCache])
           /\ IF propagates(outcome)
              THEN /\ status' = "raised"
                   /\ error' = "task"
                   /\ UNCHANGED results
              ELSE /\ results' = Append(results, compute_result(c, rdd, index, v))
                   /\ UNCHANGED <<status, error>>
    /\ UNCHANGED <<cfgVars, path, allow_local, rdd, given, partitions, handler, started, nprep,
                   bundles, outq, cm0, joined, wseen, stats, parVars, idVars>>

\* lines 267-268 and the call of self._pool.map, at the first pull
runJob_distributed ==
    /\ status = "running"
    /\ path = "distributed"
    /\ ~started
    /\ started' = TRUE
    /\ singleton__' = [singleton__ EXCEPT !["driver"] = singleton("driver")]
    /\ UNCHANGED <<cfgVars, heap, status, path, allow_local, rdd, given, partitions, handler, nprep,
                   bundles, outq, results, error, cm0, joined, wseen, tasks, stats,
                   parVars, idVars>>

prepare_filter_rdd(i, index) == i[1] = index
\* line 272: lambda i: i[1] == p.index
prepare_filter(i, index) == i[2] = index

\* clone_contains returns a new instance, never self
clone_is_self(cm) == cm
clone_instance(cm) == Fresh

advance_stuck(n) == n
\* "for p in partitions" (line 296): the generator moves on to the partition
\* after the one it handed out
advance(n) == n + 1

\* prepare(p) (lines 270-293), called when the pool pulls its next input;
\* t are the times it measures (lines 273, 278, 283)
prepare(t) ==
    /\ status = "running"
    /\ started
    /\ nprep < Len(partitions)
    /\ LET p  == next_partition(partitions, nprep)
           cm == singleton__["driver"]
           cm_clone == clone_instance(cm)
           cm_serialized == data_deserializer(Obj(cm_clone))
           serialized_p  == data_deserializer(Obj(p))
           cloned     == [driver_cache_clone |-> t[1]]
           serialized == [driver_cache_clone |-> t[1], driver_cache_serialize |-> t[2]]
           all        == [driver_cache_clone |-> t[1], driver_cache_serialize |-> t[2],
                          driver_serialize_data |-> t[3]]
       IN  IF cm_serialized.err \/ serialized_p.err
           THEN /\ status' = "raised"
                /\ error' = "codec"
                /\ stats' = add_stats(stats, IF cm_serialized.err THEN cloned ELSE serialized)
                /\ UNCHANGED <<heap, nprep, bundles, cm0>>
           ELSE /\ heap' = [heap EXCEPT ![cm_clone] =
                               clone_contains(heap[cm], {i \in Idents : prepare_filter(i, p)})]
                /\ bundles' = Append(bundles,
                       [cm |-> cm_serialized, p |-> serialized_p, driver |-> heap[cm],
                        pos |-> nprep + 1])
                /\ nprep' = advance(nprep)
                /\ stats' = add_stats(stats, all)
                /\ UNCHANGED <<status, error, cm0>>
    /\ Fits(stats')
    /\ UNCHANGED <<cfgVars, singleton__, path, allow_local, rdd, given, partitions, handler, started,
                   outq, results, joined, wseen, tasks, parVars, idVars>>

\* whether what the worker deserializes is a copy of what the driver made
Copied == pool = "ProcessPool" \/ codec = "pickle"

\* lines 33-39: the instance that is the worker's singleton from here on
reconcile_addr(w, frag_addr) ==
    IF singleton__[w] = NoAddr
    THEN (IF Copied THEN Fresh ELSE frag_addr)
    ELSE singleton__[w]

reconcile_replace(w, frag) == frag
reconcile_overwrite(w, frag) ==
    IF singleton__[w] = NoAddr THEN frag ELSE join(frag, heap[singleton__[w]])
\* lines 33-39: its cache_obj once the fragment is in
reconcile(w, frag) ==
    IF singleton__[w] = NoAddr THEN frag ELSE join(heap[singleton__[w]], frag)

cm_state_early(held, merged) == stored_idents(held)
\* line 40, after lines 33-39
cm_state(held, merged) == stored_idents(merged)

\* what the results waiting in the pool's output will add to the statistics
RECURSIVE Reported(_)
Reported(q) ==
    IF q = <<>> THEN [ph \in MapPhases |-> 0]
    ELSE [ph \in MapPhases |-> Head(q).val.s[ph] + Reported(Tail(q))[ph]]

\* runJob_map (lines 28-61) on the bundle the pool runs next; t are the
\* times it measures (lines 56-59)
runJob_map(v, outcome, t) ==
    /\ status = "running"
    /\ started
    /\ bundles # <<>>
    /\ LET b == Head(bundles)
           w == WorkerProc
           cache_manager == data_deserializer(b.cm)
           partition == data_deserializer(b.p)
           frag   == heap[cache_manager.val]
           held   == IF singleton__[w] = NoAddr THEN EmptyCache ELSE heap[singleton__[w]]
           s      == reconcile_addr(w, cache_manager.val)
           merged == reconcile(w, frag)
           base   == cm_state(held, merged)
           after  == IF outcome = "raise_before" THEN merged
                     ELSE compute_cache(merged, rdd, partition.val, v)
           ret    == [outcome |-> outcome,
                      result |-> compute_result(merged, rdd, partition.val, v),
                      delta  |-> get_not_in(after, base),
                      frag   |-> frag,
                      held   |-> held,
                      cached |-> stored_idents(after) \ stored_idents(merged),
                      s      |-> t]
       IN  /\ ~cache_manager.err
           /\ ~partition.err
           /\ singleton__' = [singleton__ EXCEPT ![w] = s]
           /\ heap' = [a \in Addrs |->
                          IF a = s THEN after
                          ELSE IF a = cache_manager.val /\ a \notin Singletons THEN EmptyCache
                          ELSE heap[a]]
           /\ outq' = Append(outq, data_serializer(Obj(ret)))
           /\ wseen' = wseen \cup stored_idents(frag) \cup ret.cached
           /\ tasks' = Append(tasks, [pos |-> b.pos, outcome |-> outcome,
                                      delta |-> ret.delta])
           /\ Fits(add_stats(add_stats(stats, Reported(outq)), t))
    /\ bundles' = Tail(bundles)
    /\ UNCHANGED <<cfgVars, status, path, allow_local, rdd, given, partitions, handler, started, nprep,
                   results, error, cm0, joined, stats, parVars, idVars>>

driver_join_skip(cm, cache_result) == cm
\* line 304: cm.join(cache_result)
driver_join(cm, cache_result) == join(cm, cache_result)

\* one iteration of the dispatch loop (lines 295-311), pulled by the
\* consumer; t are the times it measures (lines 299, 305)
runJob_distributed_next(t) ==
    /\ status = "running"
    /\ started
    /\ outq # <<>>
    /\ LET d  == data_deserializer(Head(outq))
           cm == singleton__["driver"]
           measured == [driver_deserialize_data |-> t[1], driver_cache_join |-> t[2]]
       IN  IF d.err
           THEN /\ status' = "raised"
                /\ error' = "codec"
                /\ UNCHANGED <<heap, results, joined, stats>>
           ELSE IF propagates(d.val.outcome)
           THEN /\ status' = "raised"
                /\ error' = "task"
                /\ UNCHANGED <<heap, results, joined, stats>>
           ELSE /\ heap' = [heap EXCEPT ![cm] = driver_join(heap[cm], d.val.delta)]
                /\ results' = Append(results, d.val.result)
                /\ joined' = Append(joined, d.val.delta)
                /\ stats' = add_stats(add_stats(stats, measured), d.val.s)
                /\ UNCHANGED <<status, error>>
    /\ Fits(stats')
    /\ outq' = Tail(outq)
    /\ UNCHANGED <<cfgVars, singleton__, path, allow_local, rdd, given, partitions, handler, started,
                   nprep, bundles, cm0, wseen, tasks, parVars, idVars>>

may_return_early == TRUE
\* lines 254-256: list() returns when map_result is exhausted, a
\* resultHandler when it chooses to
may_return == handler \/ Len(results) = Len(partitions)

runJob_return ==
    /\ status = "running"
    /\ may_return
    /\ status' = "returned"
    /\ UNCHANGED <<cfgVars, heap, singleton__, path, allow_local, rdd, given, partitions, handler,
                   started, nprep, bundles, outq, results, error, cm0, joined,
                   wseen, tasks, stats, parVars, idVars>>

\* the times a handler measures, one difference of clock readings a phase:
\* every phase takes as long, or only the first takes time
Measured(n) ==
    {[k \in 1..n |-> d] : d \in Ticks} \cup {[k \in 1..n |-> IF k = 1 THEN d ELSE 0] : d \in Ticks}

\* the times runJob_map reports (lines 56-59): every phase takes as long, or
\* only the computation takes time
MapMeasured ==
    {[ph \in MapPhases |-> d] : d \in Ticks}
        \cup {[ph \in MapPhases |-> IF ph = "map_exec" THEN d ELSE 0] : d \in Ticks}

Next ==
    \/ \E dataset \in RddIds, parts \in PartitionArgs,
          allowLocal \in BOOLEAN, resultHandler \in BOOLEAN :
            runJob(dataset, parts, allowLocal, resultHandler)
    \/ \E v \in Computed, outcome \in Outcomes : runJob_local(v, outcome)
    \/ runJob_distributed
    \/ \E t \in Measured(3) : prepare(t)
    \/ \E v \in Computed, outcome \in Outcomes, t \in MapMeasured :
            runJob_map(v, outcome, t)
    \/ \E t \in Measured(2) : runJob_distributed_next(t)
    \/ runJob_return

(* ------------------------- Context.newRddId ------------------------ *)

\* the Context instances of the process
Contexts == {"sc1", "sc2"}

incremented_not(n) == n
\* line 120: Context.__last_rdd_id += 1, on the class and not the instance
incremented(n) == n + 1

\* newRddId (lines 119-121) called on the instance ctx
newRddId(ctx) ==
    /\ Len(issued) < MaxIds
    /\ last_rdd_id' = incremented(last_rdd_id)
    /\ issued' = Append(issued, [ctx |-> ctx, id |-> last_rdd_id'])
    /\ UNCHANGED <<parVars, engVars>>

InitIds ==
    /\ ParIdle
    /\ EngIdle
    /\ IdsIdle

NextIds == \E ctx \in Contexts : newRddId(ctx)

\* the jobs followed under the fine clock run on all partitions
StatsArgs == {None}

StatsOutcomes == {"ok", "raise_before"}

NextStats ==
    \/ \E parts \in StatsArgs, allowLocal \in BOOLEAN, resultHandler \in BOOLEAN :
            runJob(7, parts, allowLocal, resultHandler)
    \/ \E outcome \in StatsOutcomes : runJob_local(DetVal, outcome)
    \/ runJob_distributed
    \/ \E t \in Measured(3) : prepare(t)
    \/ \E outcome \in StatsOutcomes, t \in MapMeasured : runJob_map(DetVal, outcome, t)
    \/ \E t \in Measured(2) : runJob_distributed_next(t)
    \/ runJob_return

vars == <<parVars, engVars, idVars>>

SpecPar == InitPar /\ [][NextPar]_vars

SpecStats == InitStats /\ [][NextStats]_vars

SpecIds == InitIds /\ [][NextIds]_vars

Spec == Init /\ [][Next]_vars

(* ------------------------ claims on the engine ---------------------- *)

\* what _runJob_local leaves in the cache and yields for a deterministic
\* computation that returns on every partition (lines 259-264)
RECURSIVE LocalCache(_, _, _)
LocalCache(c, id, parts) ==
    IF parts = <<>> THEN c
    ELSE LocalCache(compute_cache(c, id, Head(parts), DetVal), id, Tail(parts))

RECURSIVE LocalResults(_, _, _)
LocalResults(c, id, parts) ==
    IF parts = <<>> THEN <<>>
    ELSE <<compute_result(c, id, Head(parts), DetVal)>>
            \o LocalResults(compute_cache(c, id, Head(parts), DetVal), id, Tail(parts))

\* the fragment instances the pool holds
Fragments == {bundles[k].cm.val : k \in 1..Len(bundles)}

\* the partitions runJob was asked for, the dataset's when it was given none
Expected == IF given.none \/ given.seq = <<>> THEN AllPartitions ELSE given.seq

\* C3: for a deterministic computation, a sequential pool and a data
\* serializer pair that round-trips, a distributed job whose computation
\* raises nowhere and whose results are all drained ends like the local
\* job from the same driver cache on the same partitions: same result
\* sequence, same final driver cache content.
C3_LocalEqualsDistributed ==
    (/\ det
     /\ path = "distributed"
     /\ error # "task"
     /\ \/ status = "raised"
        \/ status = "returned" /\ Len(results) = Len(partitions))
        => /\ status = "returned"
           /\ results = LocalResults(cm0, rdd, partitions)
           /\ DriverCache = LocalCache(cm0, rdd, partitions)

\* C4: what the driver puts in a bundle is encoded by the data serializer
\* (and so decodes on the worker to what the driver prepared); preparing a
\* bundle under a round-tripping pair raises nothing.
C4_EncodedBySerializer ==
    /\ error # "codec"
    /\ \A k \in 1..Len(bundles) :
          /\ bundles[k].cm = data_serializer(Obj(bundles[k].cm.val))
          /\ bundles[k].p = data_serializer(Obj(bundles[k].p.val))
          /\ data_deserializer(bundles[k].cm) = Obj(bundles[k].cm.val)
          /\ data_deserializer(bundles[k].p) = Obj(bundles[k].p.val)

\* C5: the fragment in the bundle of partition p holds exactly the entries
\* the driver CacheManager held when the bundle was prepared whose
\* identity's partition index is p.index, with the driver's values.
C5_FragmentOfPartition ==
    \A k \in 1..Len(bundles) :
        heap[bundles[k].cm.val] =
            [i \in Idents |-> IF i[2] = bundles[k].p.val
                              THEN bundles[k].driver[i] ELSE NoVal]

\* a fragment that took one entry of the driver and left another behind
C5_Witness ==
    \E k \in 1..Len(bundles) :
        /\ heap[bundles[k].cm.val] # EmptyCache
        /\ heap[bundles[k].cm.val] # bundles[k].driver

\* C6: the delta a task returns holds exactly the entries the task newly
\* cached, with the worker's values, and no entry that came in the
\* fragment or that the worker held from earlier tasks.
C6_DeltaIsNew ==
    \A k \in 1..Len(outq) :
        LET r == outq[k].val
        IN  /\ stored_idents(r.delta) = r.cached
            /\ stored_idents(r.delta)
                  \cap (stored_idents(r.frag) \cup stored_idents(r.held)) = {}
            /\ \A i \in r.cached : r.delta[i] = heap[singleton__[WorkerProc]][i]

\* a task on a worker that held entries already cached a new one
C6_Witness ==
    \E k \in 1..Len(outq) :
        /\ outq[k].val.held # EmptyCache
        /\ outq[k].val.cached # {}
        /\ stored_idents(outq[k].val.delta) = outq[k].val.cached

\* C7: the worker's singleton holds every identity of every fragment the
\* worker received and every identity it cached in any task.
C7_WorkerKeeps ==
    wseen \subseteq
        (IF singleton__[WorkerProc] = NoAddr THEN {}
         ELSE stored_idents(heap[singleton__[WorkerProc]]))

\* a worker of its own that held entries joined a fragment with an entry
\* it lacked
C7_Witness ==
    /\ pool = "ProcessPool"
    /\ \E k \in 1..Len(outq) :
          /\ outq[k].val.held # EmptyCache
          /\ stored_idents(outq[k].val.frag) \ stored_idents(outq[k].val.held) # {}

C9_CloneIsolated ==
    [][LET drv  == singleton__["driver"]
           live == {f \in Fragments : f \in Fragments'}
                      \cup (IF pool = "ProcessPool" THEN {singleton__["worker"]} \ {NoAddr}
                            ELSE {})
       IN  /\ drv \notin Fragments
           /\ drv # NoAddr =>
                ~ (heap'[drv] # heap[drv] /\ \E f \in live : heap'[f] # heap[f])]_vars

\* the driver's cache changed after a fragment was cloned from it, the
\* fragment did not; the worker caches in the fragment it adopted
C9_Witness ==
    /\ pool = "ProcessPool"
    /\ singleton__["worker"] # NoAddr
    /\ heap[singleton__["worker"]] # EmptyCache
    /\ \E k \in 1..Len(bundles) :
          /\ bundles[k].driver # DriverCache
          /\ heap[bundles[k].cm.val] # EmptyCache

\* C10: the results runJob yields are, in order, those of the partitions
\* in the order they were given, one each; a job that returned without a
\* resultHandler yielded one for every partition.
C10_ResultOrder ==
    /\ Len(results) <= Len(Expected)
    /\ \A k \in 1..Len(results) : results[k][1] = Expected[k]
    /\ (status = "returned" /\ ~handler) => Len(results) = Len(Expected)

\* a distributed job on partitions given out of index order was drained
C10_Witness ==
    /\ path = "distributed"
    /\ given = Given(<<1, 0>>)
    /\ status = "returned"
    /\ Len(results) = Len(given.seq)

\* C11: runJob takes the local path exactly when allowLocal is set or the
\* pool is a DummyPool, the distributed path otherwise; a step of the local
\* path prepares no bundle (no clone of the cache, nothing serialized),
\* joins no delta, touches no CacheManager instance but the driver's
\* singleton and leaves every total of the statistics as it was.
C11_LocalPath ==
    [][/\ path' # "none" =>
            ((path' = "local") <=> (allow_local' \/ pool' = "DummyPool"))
       /\ (status = "running" /\ path = "local") =>
            /\ stats' = stats
            /\ ~started' /\ nprep' = 0 /\ bundles' = <<>> /\ outq' = <<>>
            /\ joined' = <<>>
            /\ \A a \in Addrs : a # singleton__'["driver"] => heap'[a] = heap[a]]_vars

\* a job forced onto the local path under a pool of worker processes has
\* returned, and the totals of an earlier distributed job are still there
C11_Witness ==
    /\ pool = "ProcessPool"
    /\ allow_local
    /\ path = "local"
    /\ status = "returned"
    /\ Len(results) = Len(AllPartitions)
    /\ stats["driver_cache_join"] > 0
    /\ stats["map_exec"] > 0

\* C15: the statistics are never reset: a call of runJob starts from the
\* totals the Context has, every step leaves each total where it was or
\* raises it, the driver's phases by what the step measured and the
\* worker's phases by exactly what the drained result reported.
C15_StatsAccumulate ==
    [][/\ \A ph \in Phases : stats'[ph] >= stats[ph]
       /\ (status # "running" /\ status' = "running") => stats' = stats
       /\ \A ph \in DriverPhases : stats'[ph] - stats[ph] \in Ticks
       /\ \A ph \in MapPhases :
            stats'[ph] = stats[ph] +
                (IF path = "distributed" /\ Len(results') > Len(results)
                 THEN Head(outq).val.s[ph] ELSE 0)]_vars

\* the first result of a job is drained and a total holds more than this
\* job can have added: the rest is what earlier calls left
C15_Witness ==
    /\ path = "distributed"
    /\ status = "running"
    /\ Len(tasks) = 1
    /\ Len(results) = 1
    /\ nprep = 1
    /\ stats["map_exec"] = 2
    /\ stats["driver_cache_clone"] = 2
    /\ stats["driver_deserialize_data"] = 2

\* the positions in partitions whose computation was invoked in this job
Invoked == {tasks[k].pos : k \in 1..Len(tasks)}

\* the invocations whose outcome the consumer has pulled
Pulled == IF path = "distributed" THEN Len(tasks) - Len(outq) ELSE Len(tasks)

\* C12: a task that raises makes runJob raise as soon as the consumer pulls
\* its result: the job is then raised with exactly the results before the
\* failed one; no result stands for a task that raised; and runJob with the
\* default handler, when it returns, returns one result per dispatched
\* partition of a job in which no task raised.
C12_ErrorPropagates ==
    /\ \A k \in 1..Len(tasks) :
            (tasks[k].outcome # "ok" /\ k <= Pulled) =>
                /\ status = "raised"
                /\ error = "task"
                /\ Len(results) = k - 1
    /\ \A k \in 1..Len(results) : k <= Len(tasks) /\ tasks[k].outcome = "ok"
    /\ (status = "returned" /\ ~handler) =>
            /\ Len(results) = Len(partitions)
            /\ \A k \in 1..Len(tasks) : tasks[k].outcome = "ok"

\* a distributed job under the default handler raised at its second task,
\* after the first result had been drained
C12_Witness ==
    /\ path = "distributed"
    /\ ~handler
    /\ status = "raised"
    /\ error = "task"
    /\ Len(results) = 1
    /\ tasks[2].outcome = "raise_after"

\* C13: within one job the computation is invoked at most once for each
\* dispatched position, also after a task failed, and only for dispatched
\* positions; a job that returned all its results invoked it exactly once
\* for each.
C13_NoRetry ==
    /\ \A j, k \in 1..Len(tasks) : tasks[j].pos = tasks[k].pos => j = k
    /\ Invoked \subseteq 1..Len(partitions)
    /\ (status = "returned" /\ Len(results) = Len(partitions)) =>
            /\ Invoked = 1..Len(partitions)
            /\ Len(tasks) = Len(partitions)

\* a job raised at its first task while the pool had gone on to the second
\* partition: each was invoked once, none again
C13_Witness ==
    /\ path = "distributed"
    /\ status = "raised"
    /\ error = "task"
    /\ Len(tasks) = 2
    /\ tasks[1].outcome # "ok"
    /\ Invoked = {1, 2}

\* C14 as stated: on either path no more partitions are computed than
\* results were pulled (the pull under way counted); on the local path
\* exactly the pulled ones; under the default handler every dispatched
\* partition is computed before runJob returns.
C14_Original ==
    /\ Len(tasks) <= Len(results) + 1
    /\ path = "local" =>
            /\ Len(tasks) = Len(results) + (IF status = "raised" THEN 1 ELSE 0)
            /\ \A k \in 1..Len(tasks) : tasks[k].pos = k
    /\ (status = "returned" /\ ~handler) => Invoked = 1..Len(partitions)

\* C14, amended: on the local path exactly the partitions whose results
\* were pulled are computed, the first k for a handler that stops after k;
\* on the distributed path nothing is computed before the first pull, and
\* the pool may compute partitions ahead of the results pulled; under the
\* default handler every dispatched partition is computed before runJob
\* returns.
C14_Lazy ==
    /\ path = "local" =>
            /\ Len(tasks) = Len(results) + (IF status = "raised" THEN 1 ELSE 0)
            /\ \A k \in 1..Len(tasks) : tasks[k].pos = k
    /\ (path = "distributed" /\ ~started) => (tasks = <<>> /\ nprep = 0)
    /\ (status = "returned" /\ ~handler) => Invoked = 1..Len(partitions)

\* a handler took the first of two results of a local job and returned
C14_Witness ==
    /\ path = "local"
    /\ handler
    /\ status = "returned"
    /\ Len(partitions) = 2
    /\ Len(results) = 1
    /\ Invoked = {1}

\* C17: when the partitions argument is supplied, the job runs on exactly
\* its elements: one task for each and none for any other, so a supplied
\* empty sequence yields no result.
C17_ExactlyGiven ==
    (status # "idle" /\ ~given.none) =>
        /\ partitions = given.seq
        /\ Len(tasks) <= Len(given.seq)
        /\ Len(results) <= Len(given.seq)

RECURSIVE JoinAll(_, _)
\* cm after cm.join(d) for every d of ds in turn (line 304)
JoinAll(cm, ds) == IF ds = <<>> THEN cm ELSE JoinAll(join(cm, Head(ds)), Tail(ds))

\* C18: on the distributed path the driver has joined exactly the deltas
\* of the results yielded so far, one for each result and in the order the
\* tasks ran; its cache holds every identity of every joined delta.
C18_JoinBeforeYield ==
    path = "distributed" =>
        /\ Len(joined) = Len(results)
        /\ \A k \in 1..Len(joined) :
                /\ k <= Len(tasks)
                /\ joined[k] = tasks[k].delta
                /\ stored_idents(joined[k]) \subseteq stored_idents(DriverCache)

\* a handler stopped after the first of two results: its delta is in the
\* driver's cache, the delta of the second waits in the pool's output and
\* the driver has none of it
C18_Witness ==
    /\ path = "distributed"
    /\ handler
    /\ status = "returned"
    /\ Len(results) = 1
    /\ joined[1] # EmptyCache
    /\ Len(outq) = 1
    /\ stored_idents(Head(outq).val.delta) # {}
    /\ stored_idents(Head(outq).val.delta) \cap stored_idents(DriverCache) = {}

\* C19: while a distributed job runs, the cache of the driver's singleton
\* changes only in a step of the dispatch loop that joins one delta, and
\* the worker's singleton is another instance than the driver's.
C19_DriverOnlyByJoin ==
    [][(path = "distributed" /\ status = "running" /\ started) =>
            /\ heap'[singleton__["driver"]] # heap[singleton__["driver"]] =>
                    joined' = Append(joined, Head(outq).val.delta)
            /\ singleton__'[WorkerProc] # singleton__'["driver"]]_vars

\* C20: when a distributed job raised at a task, the driver's cache is its
\* cache from before the job with the deltas of the results drained before
\* the failure joined in, those being all the results before the failed
\* task; the entries from before the job have their values.
C20_FailureKeepsJoined ==
    (path = "distributed" /\ status = "raised" /\ error = "task") =>
        /\ Len(joined) = Len(results)
        /\ Len(tasks) > Len(joined)
        /\ tasks[Len(joined) + 1].outcome # "ok"
        /\ DriverCache = JoinAll(cm0, joined)
        /\ \A id \in stored_idents(cm0) : DriverCache[id] = cm0[id]

(* ------------------------ claims on newRddId ------------------------ *)

\* C16: the identities newRddId returns over any sequence of calls, on
\* whichever Context instances, are strictly increasing in call order, so
\* no two calls return the same identity.
C16_UniqueIncreasing ==
    \A j, k \in 1..Len(issued) : j < k => issued[j].id < issued[k].id

\* calls went to one instance, then another, then the first again
C16_Witness ==
    /\ Len(issued) >= 3
    /\ issued[1].ctx # issued[2].ctx
    /\ issued[3].ctx = issued[1].ctx

(* ----------------------- claims on parallelize ---------------------- *)

RECURSIVE Concat(_)
Concat(ps) == IF ps = <<>> THEN <<>> ELSE ps[1].data \o Concat(Tail(ps))

\* C1: for 1 <= N <= L+1, the partitions of parallelize(collection, N),
\* concatenated in partition-index order, are the collection: every
\* element is in exactly one partition, none is duplicated or left out.
C1_Coverage ==
    (pc_par = "done" /\ numPartitions >= 1 /\ numPartitions <= Len(x) + 1)
        => /\ \A k \in 1..Len(rdd_p) : rdd_p[k].index = k - 1
           /\ Concat(rdd_p) = x
           /\ \A e \in 1..Len(x) :
                  Cardinality({<<k, j>> \in (1..Len(rdd_p)) \X (1..Len(x)) :
                      j <= Len(rdd_p[k].data) /\ rdd_p[k].data[j] = e}) = 1

\* a collection that does not divide evenly has been split
C1_Witness ==
    /\ pc_par = "done"
    /\ numPartitions = 3
    /\ Len(x) = 5
    /\ Len(rdd_p) = 3

\* C2: parallelize(collection, N), N >= 1, makes exactly N partitions with
\* the indices 0..N-1 in order, partition i holding exactly the elements at
\* the positions floor(i*L/N) <= k < floor((i+1)*L/N); the widened bound of
\* the last partition brings it nothing from another partition or from
\* outside the collection.
C2_Slices ==
    (pc_par = "done" /\ numPartitions >= 1)
        => /\ Len(rdd_p) = numPartitions
           /\ \A k \in 1..Len(rdd_p) :
                /\ rdd_p[k].index = k - 1
                /\ rdd_p[k].data =
                       SubSeq(x, (((k - 1) * Len(x)) \div numPartitions) + 1,
                                 (k * Len(x)) \div numPartitions)

\* the scenario [1,2,3,4,5] with two partitions
C2_Witness ==
    /\ pc_par = "done"
    /\ x = <<1, 2, 3, 4, 5>>
    /\ numPartitions = 2
    /\ rdd_p = <<Partition(<<1, 2>>, 0), Partition(<<3, 4, 5>>, 1)>>

=============================================================================
